---- MODULE Spec2Model ----
(***************************************************************************)
(* gonk / affine: Smith-Waterman score matrices summed along diagonals.    *)
(*                                                                         *)
(* gonk   (constant gap penalty) : src/unnamed/part_000                    *)
(* affine (open + extend penalty): src/src/affine.go                       *)
(*                                                                         *)
(* Symbols are the byte values the Go code reads out of the sequence       *)
(* strings: 65 'A', 67 'C', 71 'G', 84 'T', 78 'N', 88 'X', 62 '>',         *)
(* 10 '\n', 13 '\r'.  Go strings and slices are 0-indexed; a sequence s of  *)
(* the model holds s[i-1] of the code at position i.  Matrices are         *)
(* functions over 0..n and 0..m, indexed exactly as in the code.           *)
(***************************************************************************)
EXTENDS Integers, Sequences, FiniteSets, TLC

VARIABLES
    seqA, seqB,          \* the two sequences handed to populate
    diag,                \* *diag   (-d)
    penalty,             \* *penalty (-p, gonk)
    open, ext,           \* *open, *ext (-o, -e, affine)
    pc,                  \* which part of the run is executing
    matches, ci, cj,     \* gonk populate: matrix and loop counters i, j
    aMatches, gapA, gapB,\* affine populate: the three matrices
    ai, aj, ak, maxes,   \* affine populate: loop counters i, j, k and maxes
    sumList,             \* result of sums
    file,                \* content of the file handed to the readers
    records,             \* what readFasta / fasta_reader returned
    prog,                \* the program that runs
    argA, argB,          \* main: what -a and -b name
    first, second,       \* main: the two sequences it read
    outFile              \* main: the output file

vars == <<seqA, seqB, diag, penalty, open, ext, pc, matches, ci, cj,
          aMatches, gapA, gapB, ai, aj, ak, maxes, sumList, file, records,
          prog, argA, argB, first, second, outFile>>

fillVars == <<matches, ci, cj, aMatches, gapA, gapB, ai, aj, ak, maxes>>
inputVars == <<seqA, seqB, diag, penalty, open, ext>>
ioVars == <<file, records, prog, argA, argB, first, second, outFile>>

----------------------------------------------------------------------------
(* Bounds of the model *)

MaxLen == 2        \* longest sequence of Spec
MaxPen == 1        \* largest penalty of SpecEquiv
MaxLenEA == 2      \* longest first sequence of SpecEquiv
MaxLenEB == 3      \* longest second sequence of SpecEquiv
MaxDim == 2        \* most rows and columns, less one, of a matrix of SpecSums
MaxFileLen == 5    \* longest file of SpecRead, in bytes
MaxArgLen == 4     \* longest file of SpecMain, in bytes

SeqsUpTo(S, L) == UNION {[1..k -> S] : k \in 0..L}

\* Spec: A, C, the wildcard N, and X, a symbol in neither program's map
Alphabet == {65, 67, 78, 88}
\* the four symbols both programs map
Bases == {65, 67, 71, 84}
\* SpecEquiv: three of the four
EquivAlphabet == {65, 67, 71}
\* Spec: the values of -p, -o and -e
Penalties == {0, 1}
\* SpecSums: the values of a cell
CellValues == {0, 1}
\* SpecRead: '>', '\n', '\r', 'A', 'C'
FileBytes == {62, 10, 13, 65, 67}
\* SpecMain: '>', '\n', 'A'
ArgBytes == {62, 10, 65}

----------------------------------------------------------------------------
(* Helpers shared by both programs *)

makeMatrix(n, m) == [i \in 0..n |-> [j \in 0..m |-> 0]]

Rows(mat) == Cardinality(DOMAIN mat)          \* len(matches)
Cols(mat) == Cardinality(DOMAIN mat[0])       \* len(matches[0])

RECURSIVE maxScoreFrom(_, _, _)
maxScoreFrom(scores, k, max) ==
    IF k > Len(scores) THEN max
    ELSE maxScoreFrom(scores, k + 1, IF scores[k] > max THEN scores[k] ELSE max)

\* variant: the maximum starts at the first score, not at 0
maxScoreNoFloor(scores) == maxScoreFrom(scores, 2, scores[1])

\* max := 0; for each score: if score > max then max = score
maxScore(scores) == maxScoreFrom(scores, 1, 0)

----------------------------------------------------------------------------
(* gonk: populate with a constant penalty *)

\* variant: an absent key reads as the index of N
baseIntGonkDefaultN(c) ==
    CASE c = 65 -> 0 [] c = 67 -> 1 [] c = 71 -> 2 [] c = 84 -> 3
      [] c = 78 -> 4 [] OTHER -> 4

\* the map baseInt; a key that is absent reads as Go's zero value
baseIntGonk(c) ==
    CASE c = 65 -> 0 [] c = 67 -> 1 [] c = 71 -> 2 [] c = 84 -> 3
      [] c = 78 -> 4 [] OTHER -> 0

scoresGonk ==
    << <<5, -4, -4, -4, 0>>,
       <<-4, 5, -4, -4, 0>>,
       <<-4, -4, 5, -4, 0>>,
       <<-4, -4, -4, 5, 0>>,
       <<0, 0, 0, 0, 0>> >>

scoreGonk(a, b) == scoresGonk[baseIntGonk(a) + 1][baseIntGonk(b) + 1]

\* variant: the exclusion flag is ignored
gonkBodyNoExclude(mat, a, b, d, p, i, j) ==
    LET score == scoreGonk(a[i], b[j])
        potential == << mat[i-1][j-1] + score,
                        mat[i-1][j] - p,
                        mat[i][j-1] - p,
                        0 >>
    IN  [mat EXCEPT ![i][j] = maxScore(potential)]

\* variant: the gap from (i, j-1) is not charged
gonkBodyFreeGap(mat, a, b, d, p, i, j) ==
    IF i = j /\ d
    THEN [mat EXCEPT ![i][j] = 0]
    ELSE LET score == scoreGonk(a[i], b[j])
             potential == << mat[i-1][j-1] + score,
                             mat[i-1][j] - p,
                             mat[i][j-1],
                             0 >>
         IN  [mat EXCEPT ![i][j] = maxScore(potential)]

\* the body of the two loops, for one cell (i, j)
gonkBody(mat, a, b, d, p, i, j) ==
    IF i = j /\ d
    THEN [mat EXCEPT ![i][j] = 0]
    ELSE LET score == scoreGonk(a[i], b[j])
             potential == << mat[i-1][j-1] + score,
                             mat[i-1][j] - p,
                             mat[i][j-1] - p,
                             0 >>
         IN  [mat EXCEPT ![i][j] = maxScore(potential)]

RECURSIVE gonkLoop(_, _, _, _, _, _, _)
gonkLoop(mat, a, b, d, p, i, j) ==
    IF i >= Rows(mat) THEN mat
    ELSE IF j >= Cols(mat) THEN gonkLoop(mat, a, b, d, p, i + 1, 1)
    ELSE gonkLoop(gonkBody(mat, a, b, d, p, i, j), a, b, d, p, i, j + 1)

populateGonk(mat, a, b, d, p) == gonkLoop(mat, a, b, d, p, 1, 1)

----------------------------------------------------------------------------
(* affine: populate with gap open and gap extend penalties *)

baseIntAffine(c) ==
    CASE c = 65 -> 0 [] c = 67 -> 1 [] c = 71 -> 2 [] c = 84 -> 3
      [] OTHER -> 0

scoresAffine ==
    << <<5, -4, -4, -4>>,
       <<-4, 5, -4, -4>>,
       <<-4, -4, 5, -4>>,
       <<-4, -4, -4, 5>> >>

scoreAffine(a, b) == scoresAffine[baseIntAffine(a) + 1][baseIntAffine(b) + 1]

\* variant: extending a gap in seqA is charged open + extend
affinePotentialOpenOnExtend(M, Ga, Gb, score, go, ge, i, j, k) ==
    IF k = 0 THEN << M[i-1][j-1] + score, Ga[i-1][j-1] + score, Gb[i-1][j-1] + score >>
    ELSE IF k = 1 THEN << (-go) - ge + M[i][j-1], (-go) - ge + Ga[i][j-1], (-go) - ge + Gb[i][j-1] >>
    ELSE << (-go) - ge + M[i-1][j], (-go) - ge + Ga[i-1][j], (-ge) + Gb[i-1][j] >>

\* variant: opening a gap in seqA is charged extend only
affinePotentialNoOpen(M, Ga, Gb, score, go, ge, i, j, k) ==
    IF k = 0 THEN << M[i-1][j-1] + score, Ga[i-1][j-1] + score, Gb[i-1][j-1] + score >>
    ELSE IF k = 1 THEN << (-ge) + M[i][j-1], (-ge) + Ga[i][j-1], (-go) - ge + Gb[i][j-1] >>
    ELSE << (-go) - ge + M[i-1][j], (-go) - ge + Ga[i-1][j], (-ge) + Gb[i-1][j] >>

\* potential, for matrix k of the range over matrices
affinePotential(M, Ga, Gb, score, go, ge, i, j, k) ==
    IF k = 0 THEN << M[i-1][j-1] + score, Ga[i-1][j-1] + score, Gb[i-1][j-1] + score >>
    ELSE IF k = 1 THEN << (-go) - ge + M[i][j-1], (-ge) + Ga[i][j-1], (-go) - ge + Gb[i][j-1] >>
    ELSE << (-go) - ge + M[i-1][j], (-go) - ge + Ga[i-1][j], (-ge) + Gb[i-1][j] >>

\* one pass of "for k, matrix := range matrices": maxes[k] and matrix[i][j]
affineState(st, a, b, go, ge, i, j, k) ==
    LET score == scoreAffine(a[i], b[j])
        mx == maxScore(affinePotential(st.matches, st.gapA, st.gapB,
                                       score, go, ge, i, j, k))
    IN  [matches |-> IF k = 0 THEN [st.matches EXCEPT ![i][j] = mx] ELSE st.matches,
         gapA    |-> IF k = 1 THEN [st.gapA EXCEPT ![i][j] = mx] ELSE st.gapA,
         gapB    |-> IF k = 2 THEN [st.gapB EXCEPT ![i][j] = mx] ELSE st.gapB,
         maxes   |-> [st.maxes EXCEPT ![k + 1] = mx]]

\* variant: matches keeps the match state, not the composite
affineCompositeMatchOnly(st, i, j) ==
    [st EXCEPT !.matches[i][j] = st.maxes[1]]

\* toAdd := maxScore(maxes); matches[i][j] = toAdd
affineComposite(st, i, j) ==
    [st EXCEPT !.matches[i][j] = maxScore(st.maxes)]

\* if i == j && *diag { matches[i][j] = 0 }
affineExclude(st, i, j) ==
    [st EXCEPT !.matches[i][j] = 0]

affineBody(st, a, b, d, go, ge, i, j) ==
    IF i = j /\ d
    THEN affineExclude(st, i, j)
    ELSE LET s0 == [st EXCEPT !.maxes = <<0, 0, 0>>]
             s1 == affineState(s0, a, b, go, ge, i, j, 0)
             s2 == affineState(s1, a, b, go, ge, i, j, 1)
             s3 == affineState(s2, a, b, go, ge, i, j, 2)
         IN  affineComposite(s3, i, j)

RECURSIVE affineLoop(_, _, _, _, _, _, _, _)
affineLoop(st, a, b, d, go, ge, i, j) ==
    IF i >= Rows(st.matches) THEN st
    ELSE IF j >= Cols(st.matches) THEN affineLoop(st, a, b, d, go, ge, i + 1, 1)
    ELSE affineLoop(affineBody(st, a, b, d, go, ge, i, j), a, b, d, go, ge, i, j + 1)

\* populate returns matches
populateAffine(M, Ga, Gb, a, b, d, go, ge) ==
    affineLoop([matches |-> M, gapA |-> Ga, gapB |-> Gb, maxes |-> <<0, 0, 0>>],
               a, b, d, go, ge, 1, 1).matches

----------------------------------------------------------------------------------------------------------------------------------------
(* sums, the same in both programs *)

RECURSIVE sumsLoop(_, _, _, _)
sumsLoop(mat, acc, i, j) ==
    IF i >= Rows(mat) THEN acc
    ELSE IF j >= Cols(mat) THEN sumsLoop(mat, acc, i + 1, i + 1)
    ELSE sumsLoop(mat, [acc EXCEPT ![j - i + 1] = @ + mat[i][j]], i, j + 1)

\* variant: the outer loop starts at row 1
sumsFromRowOne(mat) == sumsLoop(mat, [d \in 1..Cols(mat) |-> 0], 1, 1)

\* sums := make([]int, len(matches[0])); entry d of the code is acc[d + 1]
sums(mat) == sumsLoop(mat, [d \in 1..Cols(mat) |-> 0], 0, 0)

----------------------------------------------------------------------------
(* The FASTA readers.  A result is the slice of records returned, or a     *)
(* panic.                                                                   *)

Panic == [status |-> "panic", seqs |-> <<>>]
Returned(seqs) == [status |-> "ok", seqs |-> seqs]

\* index of the first '\n' of data at or after pos, 0 if there is none
IndexNL(data, pos) ==
    IF \E k \in pos..Len(data) : data[k] = 10
    THEN CHOOSE k \in pos..Len(data) :
            data[k] = 10 /\ \A l \in pos..(k - 1) : data[l] # 10
    ELSE 0

\* the body both readers share: skip an empty line, start a record at '>',
\* otherwise add the line to the last record (a panic when there is none)
RECURSIVE readFastaLoop(_, _, _)
readFastaLoop(data, pos, seqs) ==
    LET nl == IndexNL(data, pos) IN
    IF nl = 0 THEN Returned(seqs)            \* ReadString gave io.EOF: break
    ELSE LET line == SubSeq(data, pos, nl - 1) IN
         IF line = <<>> THEN readFastaLoop(data, nl + 1, seqs)
         ELSE IF line[1] = 62
              THEN readFastaLoop(data, nl + 1,
                                 Append(seqs, [header |-> Tail(line), seq |-> <<>>]))
         ELSE IF seqs = <<>> THEN Panic      \* seqs[len(seqs)-1] with len 0
         ELSE readFastaLoop(data, nl + 1,
                            [seqs EXCEPT ![Len(seqs)].seq = @ \o line])

\* gonk's reader, on the content of the file
readFasta(data) == readFastaLoop(data, 1, <<>>)

\* bufio.ScanLines drops one trailing '\r' of a line
dropCR(line) ==
    IF Len(line) > 0 /\ line[Len(line)] = 13
    THEN SubSeq(line, 1, Len(line) - 1) ELSE line

RECURSIVE fastaReaderLoop(_, _, _)
fastaReaderLoop(data, pos, seqs) ==
    IF pos > Len(data) THEN Returned(seqs)   \* scanner.Scan() is false
    ELSE LET nl == IndexNL(data, pos)
             last == IF nl = 0 THEN Len(data) ELSE nl - 1
             line == dropCR(SubSeq(data, pos, last))
         IN  IF line = <<>> THEN fastaReaderLoop(data, last + 2, seqs)
             ELSE IF line[1] = 62
                  THEN fastaReaderLoop(data, last + 2,
                                       Append(seqs, [header |-> Tail(line), seq |-> <<>>]))
             ELSE IF seqs = <<>> THEN Panic
             ELSE fastaReaderLoop(data, last + 2,
                                  [seqs EXCEPT ![Len(seqs)].seq = @ \o line])

\* affine's reader, on the content of the file
fasta_reader(data) == fastaReaderLoop(data, 1, <<>>)

----------------------------------------------------------------------------
(* The fill, one cell (gonk) or one matrix of one cell (affine) at a time.  *)
(* prog is the program that runs: "gonk", "affine", or "both" for gonk's    *)
(* populate followed by affine's on the same sequences, which lets their    *)
(* results be compared.                                                     *)

\* the loop counters after the body of cell (i, j): j++, or i++ and j := 1
NextI(i, j, mat) == IF j + 1 < Cols(mat) THEN i ELSE i + 1
NextJ(i, j, mat) == IF j + 1 < Cols(mat) THEN j + 1 ELSE 1

\* the loops have run out: i reached len(matches), or no j satisfies j < len(matches[0])
LoopDone(i, mat) == i >= Rows(mat) \/ Cols(mat) <= 1

NoFile == [created |-> FALSE, lines |-> <<>>]
NoArg == [kind |-> "none", data |-> <<>>]

NoIO ==
    /\ sumList = <<>>
    /\ file = <<>>
    /\ records = <<>>
    /\ argA = NoArg /\ argB = NoArg
    /\ first = <<>>
    /\ second = <<>>
    /\ outFile = NoFile

InitFill(pr, a, b, d, p, go, ge) ==
    /\ prog = pr
    /\ seqA = a /\ seqB = b /\ diag = d
    /\ penalty = p /\ open = go /\ ext = ge
    /\ pc = IF pr = "affine" THEN "affine" ELSE "gonk"
    /\ matches = makeMatrix(Len(a), Len(b))
    /\ ci = 1 /\ cj = 1
    /\ aMatches = makeMatrix(Len(a), Len(b))
    /\ gapA = makeMatrix(Len(a), Len(b))
    /\ gapB = makeMatrix(Len(a), Len(b))
    /\ ai = 1 /\ aj = 1 /\ ak = 0
    /\ maxes = <<0, 0, 0>>
    /\ NoIO

GonkCell ==
    /\ pc = "gonk"
    /\ ~LoopDone(ci, matches)
    /\ matches' = gonkBody(matches, seqA, seqB, diag, penalty, ci, cj)
    /\ ci' = NextI(ci, cj, matches)
    /\ cj' = NextJ(ci, cj, matches)
    /\ UNCHANGED <<pc, aMatches, gapA, gapB, ai, aj, ak, maxes>>
    /\ UNCHANGED <<inputVars, sumList, ioVars>>

GonkReturn ==
    /\ pc = "gonk"
    /\ LoopDone(ci, matches)
    /\ pc' = IF prog = "both" THEN "affine" ELSE "done"
    /\ UNCHANGED <<fillVars, inputVars, sumList, ioVars>>

AffineSt == [matches |-> aMatches, gapA |-> gapA, gapB |-> gapB, maxes |-> maxes]

AffineExcludeCell ==
    /\ pc = "affine"
    /\ ~LoopDone(ai, aMatches)
    /\ ai = aj /\ diag
    /\ aMatches' = affineExclude(AffineSt, ai, aj).matches
    /\ ai' = NextI(ai, aj, aMatches)
    /\ aj' = NextJ(ai, aj, aMatches)
    /\ UNCHANGED <<pc, matches, ci, cj, gapA, gapB, ak, maxes>>
    /\ UNCHANGED <<inputVars, sumList, ioVars>>

AffineStateCell ==
    /\ pc = "affine"
    /\ ~LoopDone(ai, aMatches)
    /\ ~(ai = aj /\ diag)
    /\ ak < 3
    /\ LET st == affineState(AffineSt, seqA, seqB, open, ext, ai, aj, ak)
       IN  /\ aMatches' = st.matches
           /\ gapA' = st.gapA
           /\ gapB' = st.gapB
           /\ maxes' = st.maxes
    /\ ak' = ak + 1
    /\ UNCHANGED <<pc, matches, ci, cj, ai, aj>>
    /\ UNCHANGED <<inputVars, sumList, ioVars>>

AffineCompositeCell ==
    /\ pc = "affine"
    /\ ~LoopDone(ai, aMatches)
    /\ ~(ai = aj /\ diag)
    /\ ak = 3
    /\ aMatches' = affineComposite(AffineSt, ai, aj).matches
    /\ ai' = NextI(ai, aj, aMatches)
    /\ aj' = NextJ(ai, aj, aMatches)
    /\ ak' = 0
    /\ maxes' = <<0, 0, 0>>
    /\ UNCHANGED <<pc, matches, ci, cj, gapA, gapB>>
    /\ UNCHANGED <<inputVars, sumList, ioVars>>

AffineReturn ==
    /\ pc = "affine"
    /\ LoopDone(ai, aMatches)
    /\ pc' = "done"
    /\ UNCHANGED <<fillVars, inputVars, sumList, ioVars>>

\* one program's populate, on any sequences over Alphabet and any penalties
Init ==
    \E a \in SeqsUpTo(Alphabet, MaxLen), b \in SeqsUpTo(Alphabet, MaxLen),
       d \in BOOLEAN :
        \/ \E p \in Penalties : InitFill("gonk", a, b, d, p, 0, 0)
        \/ \E go \in Penalties, ge \in Penalties : InitFill("affine", a, b, d, 0, go, ge)

Next ==
    \/ GonkCell
    \/ GonkReturn
    \/ AffineExcludeCell
    \/ AffineStateCell
    \/ AffineCompositeCell
    \/ AffineReturn

Spec == Init /\ [][Next]_vars

\* both programs' populate on the same sequences over the mapped symbols,
\* with the penalties of the two programs tied to each other (open and
\* extend are p and 0, 0 and p, or p and p); and the
\* scenario "ACGT" against "ACGT" at penalty 25, open 25, extend 1
InitEquiv ==
    \/ \E a \in SeqsUpTo(EquivAlphabet, MaxLenEA), b \in SeqsUpTo(EquivAlphabet, MaxLenEB),
          d \in BOOLEAN, p \in 0..MaxPen :
           \/ InitFill("both", a, b, d, p, p, 0)
           \/ InitFill("both", a, b, d, p, 0, p)
           \/ InitFill("both", a, b, d, p, p, p)
    \/ InitFill("both", <<65, 67, 71, 84>>, <<65, 67, 71, 84>>, FALSE, 25, 25, 1)

SpecEquiv == InitEquiv /\ [][Next]_vars

----------------------------------------------------------------------------
(* Properties of the fill *)

N == Len(seqA)
M == Len(seqB)
MinNM == IF N < M THEN N ELSE M

GonkDone == prog \in {"gonk", "both"} /\ pc # "gonk"
AffineDone == prog \in {"affine", "both"} /\ pc = "done"

\* the greatest element of a non-empty finite set of integers
MaxOf(S) == CHOOSE x \in S : \A y \in S : y <= x

Excluded(i, j) == i = j /\ diag

AllCells(mat) == \A i \in DOMAIN mat : \A j \in DOMAIN mat[i] : mat[i][j] >= 0

\* C1: every cell of gonk's matrix and of affine's matches, gapA and gapB is
\* >= 0 in every state of the fill and after it.
C1_CellsNonNegative ==
    AllCells(matches) /\ AllCells(aMatches) /\ AllCells(gapA) /\ AllCells(gapB)

\* the affine fill is under way and negative candidates have been floored:
\* a mismatch next to the border and a gap opened from a zero cell
C1_Witness ==
    /\ pc = "affine" /\ ai = 2 /\ ak = 3
    /\ open + ext > 0
    /\ scoreAffine(seqA[1], seqB[1]) < 0
    /\ aMatches[1][1] = 0
    /\ gapA[2][aj] = 0 /\ gapB[2][aj] = 0

\* C2 as stated: with open = p and extend = 0 affine's result equals gonk's.
C2_ZeroExtendEqualsFlat ==
    (AffineDone /\ GonkDone /\ open = penalty /\ ext = 0
       /\ \A i \in 1..N : seqA[i] \in Bases
       /\ \A j \in 1..M : seqB[j] \in Bases)
    => aMatches = matches

\* C2 amended: with open = 0 and extend = p affine's result equals gonk's,
\* cell for cell, for sequences over {A,C,G,T}.
C2_ZeroOpenEqualsFlat ==
    (AffineDone /\ GonkDone /\ open = 0 /\ ext = penalty
       /\ \A i \in 1..N : seqA[i] \in Bases
       /\ \A j \in 1..M : seqB[j] \in Bases)
    => aMatches = matches

\* both fills finished with open = 0, extend = p > 0, and a gap of two
\* columns was scored: opened from a match and then extended
C2_Witness ==
    /\ AffineDone /\ GonkDone /\ open = 0 /\ ext = penalty /\ penalty > 0
    /\ \E i \in 1..N, j \in 3..M :
          /\ gapA[i][j-1] > 0
          /\ gapA[i][j] = gapA[i][j-1] - ext
          /\ gapA[i][j] > 0
          /\ matches[i][j] = gapA[i][j]
          /\ matches[i][j] = matches[i][j-2] - 2 * penalty

\* the substitution score as the claims state it: 0 when either symbol is N,
\* +5 for equal symbols and -4 for unequal ones
substitution(x, y) ==
    IF x = 78 \/ y = 78 THEN 0 ELSE IF x = y THEN 5 ELSE -4

\* C3: after gonk's populate, row 0 and column 0 are 0 and every cell that
\* the exclusion flag does not force to 0 is the maximum of 0, the diagonal
\* predecessor plus the substitution score, and the two neighbours minus p.
C3_GonkRecurrence ==
    (GonkDone /\ \A i \in 1..N : seqA[i] \in Bases \cup {78}
              /\ \A j \in 1..M : seqB[j] \in Bases \cup {78})
    => /\ \A j \in 0..M : matches[0][j] = 0
       /\ \A i \in 0..N : matches[i][0] = 0
       /\ \A i \in 1..N, j \in 1..M :
             ~Excluded(i, j) =>
                matches[i][j] = MaxOf({0,
                                       matches[i-1][j-1] + substitution(seqA[i], seqB[j]),
                                       matches[i-1][j] - penalty,
                                       matches[i][j-1] - penalty})

\* gonk finished on sequences with an N: one cell took its value from the
\* diagonal through an N (score 0), one from a gap, one from a match
C3_Witness ==
    /\ GonkDone /\ penalty > 0
    /\ \A i \in 1..N : seqA[i] \in Bases \cup {78}
    /\ \A j \in 1..M : seqB[j] \in Bases \cup {78}
    /\ \E i \in 1..N, j \in 1..M :
          /\ ~Excluded(i, j)
          /\ seqA[i] = 78 /\ seqB[j] # 78
          /\ matches[i-1][j-1] > 0
          /\ matches[i][j] = matches[i-1][j-1]
          /\ matches[i][j] > matches[i-1][j] - penalty
          /\ matches[i][j] > matches[i][j-1] - penalty
    /\ \E i \in 1..N, j \in 1..M :
          /\ ~Excluded(i, j)
          /\ matches[i][j] = matches[i][j-1] - penalty
          /\ matches[i][j] > matches[i-1][j-1] + substitution(seqA[i], seqB[j])
          /\ matches[i][j] > 0

\* a symbol outside affine's map replaced by 'A'
asA_Affine(x) == IF x \in {65, 67, 71, 84} THEN x ELSE 65
\* a symbol outside gonk's map replaced by 'A'
asA_Gonk(x) == IF x \in {65, 67, 71, 84, 78} THEN x ELSE 65

\* the substitution score of affine's recurrence: +5 / -4 on the four mapped
\* symbols, any other symbol standing for 'A' (C9)
substitutionAffine(x, y) == IF asA_Affine(x) = asA_Affine(y) THEN 5 ELSE -4

\* C4: after affine's populate every cell not forced to 0 satisfies the three
\* recurrences over the stored (composite) matches: a gap opens at
\* open + extend and extends, in the same orientation, at extend.
C4_AffineRecurrence ==
    AffineDone =>
      \A i \in 1..N, j \in 1..M :
        ~Excluded(i, j) =>
          LET s == substitutionAffine(seqA[i], seqB[j]) IN
          /\ gapA[i][j] = MaxOf({0,
                                 aMatches[i][j-1] - open - ext,
                                 gapA[i][j-1] - ext,
                                 gapB[i][j-1] - open - ext})
          /\ gapB[i][j] = MaxOf({0,
                                 aMatches[i-1][j] - open - ext,
                                 gapA[i-1][j] - open - ext,
                                 gapB[i-1][j] - ext})
          /\ aMatches[i][j] = MaxOf({MaxOf({0,
                                            aMatches[i-1][j-1] + s,
                                            gapA[i-1][j-1] + s,
                                            gapB[i-1][j-1] + s}),
                                     gapA[i][j],
                                     gapB[i][j]})

\* affine finished with open > 0 and extend > 0 and a gap of two columns:
\* opened from a match at open + extend, then extended at extend, which beat
\* opening again from the left neighbour
C4_Witness ==
    /\ AffineDone /\ open > 0 /\ ext > 0
    /\ \E i \in 1..N, j \in 3..M :
          /\ ~Excluded(i, j) /\ ~Excluded(i, j - 1)
          /\ gapA[i][j-1] = aMatches[i][j-2] - open - ext
          /\ gapA[i][j] = gapA[i][j-1] - ext
          /\ gapA[i][j] > aMatches[i][j-1] - open - ext
          /\ gapA[i][j] > 0
          /\ aMatches[i][j] = gapA[i][j]

\* C6: with the exclusion flag set, once a builder has finished every cell
\* (i,i), 1 <= i <= min(n,m), of its matrix is 0; in affine also of gapA, gapB.
C6_DiagonalZero ==
    diag =>
      /\ GonkDone => \A i \in 1..MinNM : matches[i][i] = 0
      /\ AffineDone => \A i \in 1..MinNM :
                          aMatches[i][i] = 0 /\ gapA[i][i] = 0 /\ gapB[i][i] = 0

\* affine finished with the flag set on sequences that match along the main
\* diagonal, and a cell off the diagonal scored
C6_Witness ==
    /\ diag /\ AffineDone /\ MinNM >= 2
    /\ \A i \in 1..MinNM : seqA[i] = seqB[i] /\ aMatches[i][i] = 0
    /\ \E i \in 1..N, j \in 1..M : i # j /\ aMatches[i][j] > 0

\* C7: "ACGT" against "ACGT", no exclusion: gonk's matrix at penalty 25 has
\* 5, 10, 15, 20 on the main diagonal and 0 elsewhere, and affine's matrix at
\* open 25, extend 1 equals it.
C7_Scenario ==
    (GonkDone /\ AffineDone
       /\ seqA = <<65, 67, 71, 84>> /\ seqB = <<65, 67, 71, 84>>
       /\ ~diag /\ penalty = 25 /\ open = 25 /\ ext = 1)
    => /\ \A i \in 0..4, j \in 0..4 :
             matches[i][j] = IF i = j THEN 5 * i ELSE 0
       /\ aMatches = matches

\* the scenario has run to the end
C7_Witness ==
    /\ GonkDone /\ AffineDone
    /\ seqA = <<65, 67, 71, 84>> /\ seqB = <<65, 67, 71, 84>>
    /\ ~diag /\ penalty = 25 /\ open = 25 /\ ext = 1
    /\ matches[4][4] = 20

MapSeq(f(_), s) == [k \in 1..Len(s) |-> f(s[k])]

\* C9: a symbol that is no key of the builder's map is scored as 'A': the
\* filled matrix is the one populate gives after replacing it by 'A'
\* (for affine, N included).
C9_UnmappedScoredAsA ==
    /\ (prog = "gonk" /\ pc = "done") =>
          matches = populateGonk(makeMatrix(N, M), MapSeq(asA_Gonk, seqA),
                                 MapSeq(asA_Gonk, seqB), diag, penalty)
    /\ (prog = "affine" /\ pc = "done") =>
          aMatches = populateAffine(makeMatrix(N, M), makeMatrix(N, M), makeMatrix(N, M),
                                    MapSeq(asA_Affine, seqA), MapSeq(asA_Affine, seqB),
                                    diag, open, ext)

\* affine finished on a sequence with an N, and the N scored +5 against an A
\* and -4 against a C
C9_Witness ==
    /\ prog = "affine" /\ pc = "done" /\ ~diag
    /\ N >= 1 /\ M >= 2
    /\ seqA[1] = 78 /\ seqB[1] = 65 /\ seqB[2] = 67
    /\ aMatches[1][1] = 5
    /\ open + ext > 0
    /\ aMatches[1][2] = 5 - open - ext

----------------------------------------------------------------------------
(* sums applied to a matrix of any shape *)

IdleFill(n, m) ==
    /\ ci = 1 /\ cj = 1
    /\ aMatches = makeMatrix(n, m)
    /\ gapA = makeMatrix(n, m)
    /\ gapB = makeMatrix(n, m)
    /\ ai = 1 /\ aj = 1 /\ ak = 0
    /\ maxes = <<0, 0, 0>>

IdleInputs ==
    /\ seqA = <<>> /\ seqB = <<>>
    /\ diag = FALSE
    /\ penalty = 25 /\ open = 25 /\ ext = 1     \* the flags' defaults

InitSums ==
    /\ \E n \in 0..MaxDim, m \in 0..MaxDim :
          /\ matches \in [0..n -> [0..m -> CellValues]]
          /\ IdleFill(n, m)
    /\ IdleInputs
    /\ prog = "gonk"
    /\ pc = "sums"
    /\ NoIO

Sums ==
    /\ pc = "sums"
    /\ sumList' = sums(IF prog = "affine" THEN aMatches ELSE matches)
    /\ pc' = "write"
    /\ UNCHANGED <<fillVars, inputVars, ioVars>>

NextSums == Sums

SpecSums == InitSums /\ [][NextSums]_vars

RECURSIVE DiagonalSum(_, _, _)
\* the sum of the cells (k, k+d) for k in i..n with k+d <= m
DiagonalSum(mat, d, i) ==
    IF i >= Rows(mat) \/ i + d >= Cols(mat) THEN 0
    ELSE mat[i][i + d] + DiagonalSum(mat, d, i + 1)

\* C5: for a matrix of n+1 rows and m+1 columns sums returns m+1 entries and
\* entry d is the sum of the cells (i, i+d), i in 0..n, i+d <= m.
C5_DiagonalProfile ==
    pc = "write" =>
      /\ Len(sumList) = Cols(matches)
      /\ \A d \in 0..(Cols(matches) - 1) :
            sumList[d + 1] = DiagonalSum(matches, d, 0)

\* sums ran on a matrix with more rows than columns whose cells below the
\* main diagonal are not 0, and every entry of the profile is positive
C5_Witness ==
    /\ pc = "write"
    /\ Rows(matches) > Cols(matches) /\ Cols(matches) >= 2
    /\ \A i \in DOMAIN matches : \A j \in DOMAIN matches[i] : matches[i][j] = 1
    /\ sumList[1] = Cols(matches)
    /\ sumList[Cols(matches)] = 1

----------------------------------------------------------------------------
(* The two readers applied to the same file *)

InitRead ==
    /\ file \in SeqsUpTo(FileBytes, MaxFileLen)
    /\ records = <<>>
    /\ pc = "readFasta"
    /\ prog = "both"
    /\ sumList = <<>>
    /\ argA = NoArg /\ argB = NoArg
    /\ first = <<>> /\ second = <<>>
    /\ outFile = NoFile
    /\ matches = makeMatrix(0, 0)
    /\ IdleFill(0, 0)
    /\ IdleInputs

ReadFasta ==
    /\ pc = "readFasta"
    /\ records' = Append(records, readFasta(file))
    /\ pc' = "fasta_reader"
    /\ UNCHANGED <<fillVars, inputVars, sumList, file, prog, argA, argB, first, second, outFile>>

FastaReader ==
    /\ pc = "fasta_reader"
    /\ records' = Append(records, fasta_reader(file))
    /\ pc' = "read"
    /\ UNCHANGED <<fillVars, inputVars, sumList, file, prog, argA, argB, first, second, outFile>>

NextRead == ReadFasta \/ FastaReader

SpecRead == InitRead /\ [][NextRead]_vars

\* the lines of data from pos on, split at '\n', the last one whether or not
\* a '\n' ends it
RECURSIVE LinesOf(_, _)
LinesOf(data, pos) ==
    IF pos > Len(data) THEN <<>>
    ELSE LET nl == IndexNL(data, pos)
             last == IF nl = 0 THEN Len(data) ELSE nl - 1
         IN  <<SubSeq(data, pos, last)>> \o LinesOf(data, last + 2)

IsHeader(line) == line # <<>> /\ line[1] = 62

RECURSIVE ConcatUntilHeader(_, _)
\* the lines from line k up to the next header or the end, concatenated
ConcatUntilHeader(lines, k) ==
    IF k > Len(lines) \/ IsHeader(lines[k]) THEN <<>>
    ELSE lines[k] \o ConcatUntilHeader(lines, k + 1)

\* C10: when the first line of the file is a header, each reader returns, as
\* the sequence of the first record, the non-header lines between that header
\* and the next one (or the end) in order, a last line without '\n' included,
\* and the two readers return the same records.
C10_ReadersReturnFirstRecord ==
    (pc = "read" /\ file # <<>> /\ file[1] = 62)
    => /\ records[1].status = "ok" /\ records[2].status = "ok"
       /\ Len(records[1].seqs) >= 1 /\ Len(records[2].seqs) >= 1
       /\ records[1].seqs[1].seq = ConcatUntilHeader(LinesOf(file, 1), 2)
       /\ records[2].seqs[1].seq = ConcatUntilHeader(LinesOf(file, 1), 2)
       /\ records[1] = records[2]

----------------------------------------------------------------------------
(* main of either program, from the flags to the output file.  -a and -b   *)
(* name nothing (the flag's default ""), a file that cannot be opened, or   *)
(* a file with some content; the other flags keep their defaults.           *)

Unopenable == [kind |-> "unopenable", data |-> <<>>]
FileOf(data) == [kind |-> "file", data |-> data]

Args == {NoArg, Unopenable} \cup {FileOf(f) : f \in SeqsUpTo(ArgBytes, MaxArgLen)}

\* os.Open and check(err), then the program's reader
openAndRead(pr, arg) ==
    IF arg.kind # "file" THEN Panic
    ELSE IF pr = "affine" THEN fasta_reader(arg.data) ELSE readFasta(arg.data)

\* variant: an empty slice of records reads as an empty sequence
firstSeqUnguarded(r) ==
    IF r.status = "ok" /\ Len(r.seqs) >= 1
    THEN [ok |-> TRUE, seq |-> r.seqs[1].seq]
    ELSE [ok |-> r.status = "ok", seq |-> <<>>]

\* reader(...)[0].seq: the reader's panic goes on, and so does the index
\* out of range when no record was returned
firstSeq(r) ==
    IF r.status = "ok" /\ Len(r.seqs) >= 1
    THEN [ok |-> TRUE, seq |-> r.seqs[1].seq]
    ELSE [ok |-> FALSE, seq |-> <<>>]

\* the lines "%v:%v\n" of the output file, as pairs <<i, score>>
profileLines(list) == [k \in 1..Len(list) |-> <<k - 1, list[k]>>]

InitMain ==
    /\ prog \in {"gonk", "affine"}
    /\ argA \in Args /\ argB \in Args
    /\ pc = "flags"
    /\ first = <<>> /\ second = <<>>
    /\ sumList = <<>>
    /\ file = <<>> /\ records = <<>>
    /\ outFile = NoFile
    /\ matches = makeMatrix(0, 0)
    /\ IdleFill(0, 0)
    /\ IdleInputs

\* flag.Parse(); if *seqA == "" || *seqB == "" { log.Fatal(...) }
ParseFlags ==
    /\ pc = "flags"
    /\ pc' = IF argA.kind = "none" \/ argB.kind = "none" THEN "fatal" ELSE "readA"
    /\ UNCHANGED <<fillVars, inputVars, sumList, ioVars>>

ReadFirst ==
    /\ pc = "readA"
    /\ LET r == firstSeq(openAndRead(prog, argA))
       IN  /\ first' = r.seq
           /\ pc' = IF r.ok THEN "readB" ELSE "fatal"
    /\ UNCHANGED <<fillVars, inputVars, sumList, file, records, prog, argA, argB,
                   second, outFile>>

ReadSecond ==
    /\ pc = "readB"
    /\ LET r == firstSeq(openAndRead(prog, argB))
       IN  /\ second' = r.seq
           /\ pc' = IF r.ok THEN "populate" ELSE "fatal"
    /\ UNCHANGED <<fillVars, inputVars, sumList, file, records, prog, argA, argB,
                   first, outFile>>

\* makeMatrix(n, m) and populate
Populate ==
    /\ pc = "populate"
    /\ seqA' = first /\ seqB' = second
    /\ LET n == Len(first)
           m == Len(second)
           st == affineLoop([matches |-> makeMatrix(n, m), gapA |-> makeMatrix(n, m),
                             gapB |-> makeMatrix(n, m), maxes |-> <<0, 0, 0>>],
                            first, second, diag, open, ext, 1, 1)
       IN  IF prog = "affine"
           THEN /\ aMatches' = populateAffine(makeMatrix(n, m), makeMatrix(n, m),
                                              makeMatrix(n, m), first, second,
                                              diag, open, ext)
                /\ gapA' = st.gapA
                /\ gapB' = st.gapB
                /\ matches' = matches
           ELSE /\ matches' = populateGonk(makeMatrix(n, m), first, second, diag, penalty)
                /\ UNCHANGED <<aMatches, gapA, gapB>>
    /\ pc' = "sums"
    /\ UNCHANGED <<ci, cj, ai, aj, ak, maxes, diag, penalty, open, ext, sumList, ioVars>>

\* os.Create, which may fail (check panics), then one line per entry
WriteScores ==
    /\ pc = "write"
    /\ \E created \in BOOLEAN :
          IF created
          THEN /\ outFile' = [created |-> TRUE, lines |-> profileLines(sumList)]
               /\ pc' = "exit"
          ELSE /\ outFile' = outFile
               /\ pc' = "fatal"
    /\ UNCHANGED <<fillVars, inputVars, sumList, file, records, prog, argA, argB,
                   first, second>>

NextMain ==
    \/ ParseFlags
    \/ ReadFirst
    \/ ReadSecond
    \/ Populate
    \/ Sums
    \/ WriteScores

SpecMain == InitMain /\ [][NextMain]_vars

\* some line of the file is not empty and the first such line is a header
HasLeadingHeader(data) ==
    LET lines == LinesOf(data, 1) IN
    \E k \in 1..Len(lines) :
        IsHeader(lines[k]) /\ \A l \in 1..(k - 1) : lines[l] = <<>>

\* no path, a file that cannot be opened, or a file that yields no record:
\* an empty file, or one whose first line with content is a sequence line
BadInput(arg) == arg.kind # "file" \/ ~HasLeadingHeader(arg.data)

\* C8: when a path is missing or an input cannot be opened or yields no
\* record, main stops at the fatal step: it never gets past the step that
\* meets the bad input, and the output file is never created or written.
C8_BadInputIsFatal ==
    /\ (argA.kind = "none" \/ argB.kind = "none") => pc \in {"flags", "fatal"}
    /\ BadInput(argA) => pc \in {"flags", "readA", "fatal"}
    /\ BadInput(argB) => pc \in {"flags", "readA", "readB", "fatal"}
    /\ (BadInput(argA) \/ BadInput(argB)) => outFile = NoFile

\* the first file was read, the second one starts with a sequence line, and
\* main has stopped with no output file
C8_Witness ==
    /\ pc = "fatal"
    /\ ~BadInput(argA) /\ first # <<>>
    /\ argB.kind = "file" /\ argB.data # <<>> /\ BadInput(argB)
    /\ outFile = NoFile

====
